---- MODULE Spec2Model ----
(***************************************************************************)
(* Model of nasty_data/elasticsearch_/index.py: the versioned-index        *)
(* manager (new_index) and the bulk upsert with the provenance merge       *)
(* script (_make_upsert_op, add_documents_to_index), run against an        *)
(* Elasticsearch engine that holds indices, one alias and documents.       *)
(***************************************************************************)
EXTENDS Integers, Sequences, FiniteSets, TLC

\* ---------------------------------------------------------------- bounds
\* number of distinct provenance sub-identities (ingestion batches)
MaxSub == 3
\* number of seconds the wall clock can advance
MaxClock == 2

\* ---------------------------------------------------------------- values
index_base_name == "posts"
DocIds == {"A"}
SubIds == 1 .. MaxSub

\* A provenance entry: the sub-identity field (meta_field_id) and the
\* descriptive rest of the entry.
Entries == [id : SubIds, info : {"x", "y"}]

\* The value of the merge-group field: null, one object, or a list.
NullMeta == [kind |-> "null", items |-> << >>]
Single(e) == [kind |-> "single", items |-> <<e>>]
List(es) == [kind |-> "list", items |-> es]

\* Values of the one non-merge field of a raw record; "None" is Python's None.
RawTexts == {"None", "a", "b"}
Absent == "absent"

\* Raw records as the loaders yield them: the merge-group field is None or
\* one object (nasty_batch_results.py:81, pushshift.py:273).
RawMetas == {NullMeta} \cup {Single(e) : e \in Entries}
RawDicts == [id : DocIds, text : RawTexts, meta : RawMetas]

NoDoc == [exists |-> FALSE, text |-> Absent, meta |-> NullMeta]

\* Generation names: index_base_name + "-" + timestamp.
GenName(base, t) == <<base, t>>
IndexNames == {GenName(index_base_name, t) : t \in 0 .. MaxClock}

\* The concurrent invocations of new_index.
Runs == {"r1", "r2"}

VARIABLES
    clock,          \* datetime.now(), in seconds
    indices,        \* names of the indices that exist in the engine
    alias,          \* the indices that hold the alias index_base_name
    store,          \* store[i][d]: the _source of document d in index i
    pc,             \* pc[r]: the engine call run r of new_index makes next
    move_data,      \* move_data[r], update_alias[r]: the arguments of run r
    update_alias,
    new_index_name, \* new_index_name[r]: the local of that name
    \* add_documents_to_index
    b_pc,           \* where the call of add_documents_to_index is
    b_index,        \* its argument index_name
    document_dicts, \* its argument document_dicts, as passed
    b_stream,       \* the part of document_dicts the pool has not read
    b_pool,         \* results of workers the coordinator has not taken
    b_chunk,        \* bulk actions collected for the next bulk request
    num_success,    \* the counts of bulk()
    num_failed,
    \* analyze_index
    a_pc,           \* where the call of analyze_index is
    a_index,        \* its argument index_name
    induced_index,  \* the name of the comparison index
    a_exc,          \* an exception is pending while the finally block runs
    \* _recursive_mapping_diff
    current_mapping,
    induced_mapping,
    report,         \* the lines logged
    \* BaseDocument.from_dict
    doc_cls,        \* the document class from_dict is called on
    doc_dict,       \* the caller's dict, as passed
    heap,           \* heap[a]: the nested object at address a
    documents,      \* what the calls of from_dict have returned, in order
    \* download_pushshift_dumps
    dl_pc,          \* where the call of download_pushshift_dumps is
    since,          \* its arguments; 0 is None
    until,
    dump_type,
    type_,          \* the loop variable of that name
    current_date,   \* the month being downloaded
    checksums,      \* checksums[p]: the published sum of this month's file p
    target,         \* the pattern the second loop of _download_pushshift_dump is at
    target_files,   \* target_files[p]: this month's file of pattern p
    tmp_files       \* tmp_files[p]: its ".tmp" sibling

engine == <<indices, alias, store>>
runs == <<pc, move_data, update_alias, new_index_name>>
bulk ==
    <<b_pc, b_index, document_dicts, b_stream, b_pool, b_chunk, num_success,
      num_failed>>
analysis == <<a_pc, a_index, induced_index, a_exc>>
diff == <<current_mapping, induced_mapping, report>>

construction == <<doc_cls, doc_dict, heap, documents>>
download ==
    <<dl_pc, since, until, dump_type, type_, current_date, checksums, target,
      target_files, tmp_files>>

vars == <<clock, engine, runs, bulk, analysis, diff, construction, download>>

EmptyIndex == [d \in DocIds |-> NoDoc]

\* ------------------------------------------------------ document classes
\* BaseDocument.meta_field() is None; the two source classes declare one.
DocumentClasses == {"BaseDocument", "PushshiftRedditDocument"}

meta_field(cls) == cls # "BaseDocument"

\* to_dict(include_meta=False) after from_dict and full_clean: fields whose
\* value is None, [] or {} are left out of the dict.
to_dict(raw) ==
    [text |-> IF raw.text = "None" THEN Absent ELSE raw.text,
     meta |-> raw.meta]

\* _make_upsert_op: the bulk action built for one raw record.
make_upsert_op(raw, index_name, cls) ==
    LET document_dict == to_dict(raw)
        meta_field_data ==
            IF meta_field(cls) THEN document_dict.meta ELSE NullMeta
    IN  IF meta_field_data.kind = "null"
        THEN [id |-> raw.id, index |-> index_name, kind |-> "doc_as_upsert",
              doc |-> document_dict, params |-> NullMeta]
        ELSE [id |-> raw.id, index |-> index_name, kind |-> "script",
              doc |-> document_dict, params |-> meta_field_data]

\* The loop gives up after the first entry.
FoundFirstOnly(items, p) == items[1].id = p.id

\* The loop of the script: is there an entry with the sub-identity of p?
Found(items, p) == \E k \in 1 .. Len(items) : items[k].id = p.id

\* The script without its checks for an entry of the same sub-identity.
MergeScriptAlwaysAdd(meta, p) ==
    IF meta.kind = "null"
    THEN Single(p)
    ELSE IF meta.kind = "list"
    THEN List(Append(meta.items, p))
    ELSE List(<<meta.items[1], p>>)

\* The script assigning the new entry over a single stored one.
MergeScriptOverwrite(meta, p) ==
    IF meta.kind = "null"
    THEN Single(p)
    ELSE IF meta.kind = "list"
    THEN IF Found(meta.items, p) THEN meta ELSE List(Append(meta.items, p))
    ELSE IF meta.items[1].id # p.id
         THEN Single(p)
         ELSE meta

\* The Painless script of _make_upsert_op, run on the stored merge group
\* with params.meta_field = p.
MergeScript(meta, p) ==
    IF meta.kind = "null"
    THEN Single(p)
    ELSE IF meta.kind = "list"
    THEN IF Found(meta.items, p) THEN meta ELSE List(Append(meta.items, p))
    ELSE IF meta.items[1].id # p.id
         THEN List(<<meta.items[1], p>>)
         ELSE meta

\* A merge in which the partial document's missing merge group erases the
\* stored one.
PartialMergeErasing(old, doc) ==
    [exists |-> TRUE,
     text |-> IF doc.text # Absent THEN doc.text ELSE old.text,
     meta |-> doc.meta]

\* The engine's merge of a partial document into the stored one
\* (doc_as_upsert on an existing document): fields of the partial document
\* replace the stored ones, fields it lacks are kept.
PartialMerge(old, doc) ==
    [exists |-> TRUE,
     text |-> IF doc.text # Absent THEN doc.text ELSE old.text,
     meta |-> IF doc.meta.kind # "null" THEN doc.meta ELSE old.meta]

Inserted(doc) == [exists |-> TRUE, text |-> doc.text, meta |-> doc.meta]

\* An update that writes the document of the bulk action over the stored one.
EngineUpdateReplacing(old, op) == Inserted(op.doc)

\* An update that runs the script and also merges the upsert document into
\* the stored one.
EngineUpdateMergingUpsert(old, op) ==
    IF ~old.exists
    THEN Inserted(op.doc)
    ELSE IF op.kind = "doc_as_upsert"
    THEN PartialMerge(old, op.doc)
    ELSE [PartialMerge(old, op.doc) EXCEPT
              !.meta = MergeScript(old.meta, op.params.items[1])]

\* The engine's update API applied to the stored document old.
EngineUpdate(old, op) ==
    IF ~old.exists
    THEN Inserted(op.doc)
    ELSE IF op.kind = "doc_as_upsert"
    THEN PartialMerge(old, op.doc)
    ELSE [old EXCEPT !.meta = MergeScript(old.meta, op.params.items[1])]

\* An engine that executes a bulk action on every document of its index.
ApplyOpToAll(st, op) ==
    [st EXCEPT ![op.index] =
        [d \in DOMAIN @ |-> EngineUpdate(@[d], op)]]

\* The store after the engine has executed the bulk action op.
ApplyOp(st, op) ==
    [st EXCEPT ![op.index][op.id] = EngineUpdate(st[op.index][op.id], op)]

\* A check that lets every name pass.
EnsureIndexExistsSkipped(index_name) == TRUE

\* ensure_index_exists
ensure_index_exists(index_name) == index_name \in indices

\* The document class the ingested index is written with.
document_cls == "PushshiftRedditDocument"

\* add_documents_to_index for one raw record: the worker builds the bulk
\* action and the engine executes it.
Ingest(index_name, raw) ==
    /\ ensure_index_exists(index_name)
    /\ store' = ApplyOp(store, make_upsert_op(raw, index_name, document_cls))
    /\ UNCHANGED <<clock, indices, alias, runs, bulk, analysis, diff,
                   construction, download>>

\* ---------------------------------------------------- from_dict: values
\* A string is the sequence of its characters.
NoId == << >>
SourceIds == {<<"a">>, <<"b">>}

\* Addresses of nested objects; 0 stands for a key that is missing.
MaxCalls == 2
NoAddr == 0
Addrs == 1 .. MaxCalls + 1

\* A nested object (the additional_media_info of a tweet): does it have the
\* key "source_user"?
Objects == [source_user : BOOLEAN]

\* A dict by its keys: "id" (NoId when missing), the presence of "title",
\* "body" and "crosspost_parent_list", the address of its nested object,
\* whether "media_metadata" is a list, and "_id" (NoId when missing).
Dicts ==
    [id : SourceIds \cup {NoId}, title : BOOLEAN, body : BOOLEAN,
     crosspost_parent_list : BOOLEAN, media : {NoAddr, 1},
     media_list : {FALSE}, meta_id : {NoId}]

\* No call of from_dict has been made.
ConstructionIdle ==
    /\ doc_cls = "BaseDocument"
    /\ doc_dict = [id |-> NoId, title |-> FALSE, body |-> FALSE,
                   crosspost_parent_list |-> FALSE, media |-> NoAddr,
                   media_list |-> FALSE, meta_id |-> NoId]
    /\ heap = [a \in Addrs |-> [source_user |-> FALSE]]
    /\ documents = << >>

\* ------------------------------------------- pushshift download: values
MaxMonth == 3
Months == 1 .. MaxMonth
Patterns == {1, 2}

\* No call of download_pushshift_dumps has been made.
DownloadIdle ==
    /\ dl_pc = "idle"
    /\ since = 0
    /\ until = 0
    /\ dump_type = "None"
    /\ type_ = "LINKS"
    /\ current_date = 1
    /\ checksums = [p \in Patterns |-> "none"]
    /\ target = 1
    /\ target_files = [p \in Patterns |-> "none"]
    /\ tmp_files = [p \in Patterns |-> "none"]

\* No call of add_documents_to_index has been made.
BulkIdle ==
    /\ b_pc = "idle"
    /\ b_index = GenName(index_base_name, 0)
    /\ document_dicts = << >>
    /\ b_stream = << >>
    /\ b_pool = {}
    /\ b_chunk = << >>
    /\ num_success = 0
    /\ num_failed = 0

\* No call of analyze_index has been made.
AnalysisIdle ==
    /\ a_pc = "idle"
    /\ a_index = GenName(index_base_name, 0)
    /\ induced_index = GenName(index_base_name, 0)
    /\ a_exc = FALSE

\* No mapping is being compared.
DiffIdle ==
    /\ current_mapping = << >>
    /\ induced_mapping = << >>
    /\ report = << >>

\* An index created by new_index, aliased and still empty.
InitMerge ==
    /\ clock = 0
    /\ indices = {GenName(index_base_name, 0)}
    /\ alias = {GenName(index_base_name, 0)}
    /\ store = [i \in IndexNames |-> EmptyIndex]
    /\ pc = [r \in Runs |-> "idle"]
    /\ move_data = [r \in Runs |-> FALSE]
    /\ update_alias = [r \in Runs |-> FALSE]
    /\ new_index_name = [r \in Runs |-> GenName(index_base_name, 0)]
    /\ BulkIdle
    /\ AnalysisIdle
    /\ DiffIdle
    /\ ConstructionIdle
    /\ DownloadIdle

NextMerge == \E i \in IndexNames, raw \in RawDicts : Ingest(i, raw)

SpecMerge == InitMerge /\ [][NextMerge]_vars

\* ------------------------------------------------------------- new_index
Raised == {"raised_create", "raised_reindex", "raised_refresh",
           "raised_exists_alias", "raised_delete_alias", "raised_put_alias"}

\* A run that is inside new_index.
Active(r) == pc[r] \notin ({"idle", "returned"} \cup Raised)

\* The indices the pattern index_base_name + "-*" matches.
all_indices == {i \in indices : i[1] = index_base_name}

\* The branches after create() with the alias update tested first.
AfterCreateAliasFirst(r) ==
    IF update_alias[r] THEN "exists_alias"
    ELSE IF move_data[r] THEN "reindex" ELSE "returned"

\* The statement after new_index.create(): `if move_data`, `if update_alias`.
AfterCreate(r) ==
    IF move_data[r] THEN "reindex"
    ELSE IF update_alias[r] THEN "exists_alias" ELSE "returned"

\* A copy followed by the alias update whatever the flag says.
AfterRefreshAliasAlways(r) == "exists_alias"

\* The statement after new_index.refresh(): `if update_alias`.
AfterRefresh(r) == IF update_alias[r] THEN "exists_alias" ELSE "returned"

\* new_index is called: the name is computed from the current second.
Call(r, md, ua) ==
    /\ ~Active(r)
    /\ pc' = [pc EXCEPT ![r] = "create"]
    /\ move_data' = [move_data EXCEPT ![r] = md]
    /\ update_alias' = [update_alias EXCEPT ![r] = ua]
    /\ new_index_name' =
           [new_index_name EXCEPT ![r] = GenName(index_base_name, clock)]
    /\ UNCHANGED <<clock, engine, bulk, analysis, diff,
                   construction, download>>

\* A creation that goes on to the alias update although the engine rejected it.
CreateFailsIgnored(r) ==
    /\ pc[r] = "create"
    /\ pc' = [pc EXCEPT ![r] = "put_alias"]
    /\ UNCHANGED <<clock, engine, move_data, update_alias, new_index_name,
                   bulk, analysis, diff,
                   construction, download>>

\* A creation that replaces an index of the same name.
CreateReplacing(r) ==
    /\ pc[r] = "create"
    /\ indices' = indices \cup {new_index_name[r]}
    /\ store' = [store EXCEPT ![new_index_name[r]] = EmptyIndex]
    /\ pc' = [pc EXCEPT ![r] = AfterCreate(r)]
    /\ UNCHANGED <<clock, alias, move_data, update_alias, new_index_name,
                   bulk, analysis, diff,
                   construction, download>>

\* new_index.create() succeeds: the name is free and the engine accepts.
Create(r) ==
    /\ pc[r] = "create"
    /\ new_index_name[r] \notin indices
    /\ indices' = indices \cup {new_index_name[r]}
    /\ store' = [store EXCEPT ![new_index_name[r]] = EmptyIndex]
    /\ pc' = [pc EXCEPT ![r] = AfterCreate(r)]
    /\ UNCHANGED <<clock, alias, move_data, update_alias, new_index_name,
                   bulk, analysis, diff,
                   construction, download>>

\* new_index.create() raises: the name is taken, or the engine rejects the
\* settings or the mapping. The exception leaves new_index.
CreateFails(r) ==
    /\ pc[r] = "create"
    /\ pc' = [pc EXCEPT ![r] = "raised_create"]
    /\ UNCHANGED <<clock, engine, move_data, update_alias, new_index_name,
                   bulk, analysis, diff,
                   construction, download>>

\* The documents a (possibly interrupted) server-side copy from the holders
\* of the alias can have written to an empty destination.
Copies(complete) ==
    {c \in [DocIds -> {NoDoc} \cup {store[i][d] : i \in alias, d \in DocIds}] :
        \A d \in DocIds :
            /\ c[d].exists => \E i \in alias : store[i][d] = c[d]
            /\ (complete /\ \E i \in alias : store[i][d].exists) => c[d].exists}

\* reindex() from index_base_name to the new index succeeds.
Reindex(r) ==
    /\ pc[r] = "reindex"
    /\ alias # {}
    /\ \E c \in Copies(TRUE) :
           store' = [store EXCEPT ![new_index_name[r]] = c]
    /\ pc' = [pc EXCEPT ![r] = "refresh"]
    /\ UNCHANGED <<clock, indices, alias, move_data, update_alias,
                   new_index_name, bulk, analysis, diff,
                   construction, download>>

\* A failed copy after which new_index carries on.
ReindexFailsSwallowed(r) ==
    /\ pc[r] = "reindex"
    /\ pc' = [pc EXCEPT ![r] = AfterRefresh(r)]
    /\ UNCHANGED <<clock, engine, move_data, update_alias, new_index_name,
                   bulk, analysis, diff,
                   construction, download>>

\* reindex() raises: index_base_name resolves to nothing, the copy fails or
\* the request times out; part of the data may have been copied.
ReindexFails(r) ==
    /\ pc[r] = "reindex"
    /\ \E c \in Copies(FALSE) :
           store' = [store EXCEPT ![new_index_name[r]] = c]
    /\ pc' = [pc EXCEPT ![r] = "raised_reindex"]
    /\ UNCHANGED <<clock, indices, alias, move_data, update_alias,
                   new_index_name, bulk, analysis, diff,
                   construction, download>>

\* new_index.refresh()
Refresh(r) ==
    /\ pc[r] = "refresh"
    /\ pc' = [pc EXCEPT ![r] = AfterRefresh(r)]
    /\ UNCHANGED <<clock, engine, move_data, update_alias, new_index_name,
                   bulk, analysis, diff,
                   construction, download>>

\* all_indices.exists_alias(name=index_base_name)
ExistsAlias(r) ==
    /\ pc[r] = "exists_alias"
    /\ pc' = [pc EXCEPT ![r] =
                 IF all_indices \cap alias # {}
                 THEN "delete_alias" ELSE "put_alias"]
    /\ UNCHANGED <<clock, engine, move_data, update_alias, new_index_name,
                   bulk, analysis, diff,
                   construction, download>>

\* A delete_alias that removes nothing.
DeleteAliasSkipped(r) ==
    /\ pc[r] = "delete_alias"
    /\ pc' = [pc EXCEPT ![r] = "put_alias"]
    /\ UNCHANGED <<clock, engine, move_data, update_alias, new_index_name,
                   bulk, analysis, diff,
                   construction, download>>

\* all_indices.delete_alias(name=index_base_name): the alias is removed from
\* every index of the pattern; the engine answers 404 if none holds it.
DeleteAlias(r) ==
    /\ pc[r] = "delete_alias"
    /\ all_indices \cap alias # {}
    /\ alias' = alias \ all_indices
    /\ pc' = [pc EXCEPT ![r] = "put_alias"]
    /\ UNCHANGED <<clock, indices, store, move_data, update_alias,
                   new_index_name, bulk, analysis, diff,
                   construction, download>>

\* new_index.put_alias(name=index_base_name)
PutAlias(r) ==
    /\ pc[r] = "put_alias"
    /\ new_index_name[r] \in indices
    /\ alias' = alias \cup {new_index_name[r]}
    /\ pc' = [pc EXCEPT ![r] = "returned"]
    /\ UNCHANGED <<clock, indices, store, move_data, update_alias,
                   new_index_name, bulk, analysis, diff,
                   construction, download>>

\* refresh, exists_alias, delete_alias or put_alias raises (the engine is
\* unreachable, or delete_alias finds no alias): the call has no effect and
\* the exception leaves new_index.
CallFails(r) ==
    /\ pc[r] \in {"refresh", "exists_alias", "delete_alias", "put_alias"}
    /\ pc' = [pc EXCEPT ![r] =
                 CASE pc[r] = "refresh" -> "raised_refresh"
                   [] pc[r] = "exists_alias" -> "raised_exists_alias"
                   [] pc[r] = "delete_alias" -> "raised_delete_alias"
                   [] OTHER -> "raised_put_alias"]
    /\ UNCHANGED <<clock, engine, move_data, update_alias, new_index_name,
                   bulk, analysis, diff,
                   construction, download>>

\* A second passes.
Tick ==
    /\ clock < MaxClock
    /\ clock' = clock + 1
    /\ UNCHANGED <<engine, runs, bulk, analysis, diff,
                   construction, download>>

\* The record the operator ingests between migrations.
SeedRaw == [id |-> "A", text |-> "a", meta |-> Single([id |-> 1, info |-> "x"])]

\* An engine without indices.
Init ==
    /\ clock = 0
    /\ indices = {}
    /\ alias = {}
    /\ store = [i \in IndexNames |-> EmptyIndex]
    /\ pc = [r \in Runs |-> "idle"]
    /\ move_data = [r \in Runs |-> FALSE]
    /\ update_alias = [r \in Runs |-> FALSE]
    /\ new_index_name = [r \in Runs |-> GenName(index_base_name, 0)]
    /\ BulkIdle
    /\ AnalysisIdle
    /\ DiffIdle
    /\ ConstructionIdle
    /\ DownloadIdle

Step(r) ==
    \/ Create(r)
    \/ CreateFails(r)
    \/ Reindex(r)
    \/ ReindexFails(r)
    \/ Refresh(r)
    \/ ExistsAlias(r)
    \/ DeleteAlias(r)
    \/ PutAlias(r)
    \/ CallFails(r)

\* Invocations of new_index that may overlap.
Next ==
    \/ \E r \in Runs, md \in BOOLEAN, ua \in BOOLEAN : Call(r, md, ua)
    \/ \E r \in Runs : Step(r)
    \/ Tick
    \/ \E i \in IndexNames : Ingest(i, SeedRaw)

Spec == Init /\ [][Next]_vars

\* new_index is called while no other invocation is running.
CallSeq(r, md, ua) ==
    /\ \A q \in Runs : ~Active(q)
    /\ Call(r, md, ua)

NextSeq ==
    \/ \E r \in Runs, md \in BOOLEAN, ua \in BOOLEAN : CallSeq(r, md, ua)
    \/ \E r \in Runs : Step(r)
    \/ Tick
    \/ \E i \in IndexNames : Ingest(i, SeedRaw)

SpecSeq == Init /\ [][NextSeq]_vars

\* ------------------------------------------------- add_documents_to_index
\* chunk_size of the bulk helper: the number of actions in one bulk request
ChunkSize == 2

\* The k-th record of a dump: document A as observed by batch k.
Record(k) == [id |-> "A", text |-> "a", meta |-> Single([id |-> k, info |-> "x"])]

\* The streams passed as document_dicts: up to MaxSub records, each of which
\* from_dict and full_clean accept (valid) or reject by raising.
Streams ==
    UNION {{[k \in 1 .. n |-> [raw |-> Record(k), valid |-> v[k]]] :
               v \in [1 .. n -> BOOLEAN]} : n \in 1 .. MaxSub}

BulkRaised ==
    {"raised_missing_index", "raised_worker", "raised_bulk", "raised_failed"}

BulkEnded == b_pc \in {"returned"} \cup BulkRaised

\* add_documents_to_index is called: ensure_index_exists raises, or the pool
\* and bulk() start on the stream.
BulkCall(index_name, dicts) ==
    /\ b_pc = "idle"
    /\ b_index' = index_name
    /\ document_dicts' = dicts
    /\ b_stream' = dicts
    /\ b_pc' = IF ensure_index_exists(index_name)
               THEN "running" ELSE "raised_missing_index"
    /\ UNCHANGED <<clock, engine, runs, b_pool, b_chunk, num_success,
                   num_failed, analysis, diff,
                   construction, download>>

\* A worker of the pool runs _make_upsert_op on the next record: the result
\* is the bulk action, or the exception from_dict or full_clean raised.
Work ==
    /\ b_pc = "running"
    /\ b_stream # << >>
    /\ b_pool' = b_pool \cup
           {[error |-> ~Head(b_stream).valid,
             op |-> make_upsert_op(Head(b_stream).raw, b_index, document_cls)]}
    /\ b_stream' = Tail(b_stream)
    /\ UNCHANGED <<clock, engine, runs, b_pc, b_index, document_dicts,
                   b_chunk, num_success, num_failed, analysis, diff,
                   construction, download>>

\* A coordinator that drops the result of a worker that raised.
TakeSkippingErrors(res) ==
    /\ b_pc = "running"
    /\ res \in b_pool
    /\ Len(b_chunk) < ChunkSize
    /\ b_pool' = b_pool \ {res}
    /\ b_chunk' = IF res.error THEN b_chunk ELSE Append(b_chunk, res.op)
    /\ UNCHANGED <<clock, engine, runs, b_pc, b_index, document_dicts,
                   b_stream, num_success, num_failed, analysis, diff,
                   construction, download>>

\* bulk() takes the next result of imap_unordered, in any order: a bulk
\* action joins the chunk; the exception of a worker is raised again in the
\* generator and leaves add_documents_to_index, the pool is terminated.
Take(res) ==
    /\ b_pc = "running"
    /\ res \in b_pool
    /\ Len(b_chunk) < ChunkSize
    /\ IF res.error
       THEN /\ b_pc' = "raised_worker"
            /\ b_pool' = {}
            /\ UNCHANGED b_chunk
       ELSE /\ b_chunk' = Append(b_chunk, res.op)
            /\ b_pool' = b_pool \ {res}
            /\ UNCHANGED b_pc
    /\ UNCHANGED <<clock, engine, runs, b_index, document_dicts, b_stream,
                   num_success, num_failed, analysis, diff,
                   construction, download>>

\* The store after the engine has executed the actions of the chunk whose
\* positions are not in rejected.
RECURSIVE ApplyChunk(_, _, _, _)
ApplyChunk(st, chunk, k, rejected) ==
    IF k > Len(chunk) THEN st
    ELSE ApplyChunk(IF k \in rejected THEN st ELSE ApplyOp(st, chunk[k]),
                    chunk, k + 1, rejected)

\* The chunk is complete, or the stream has ended.
ChunkReady ==
    /\ b_pc = "running"
    /\ b_chunk # << >>
    /\ Len(b_chunk) = ChunkSize \/ (b_stream = << >> /\ b_pool = {})

\* One bulk request: the engine executes the actions, rejecting those at the
\* positions in rejected for good (retries included); bulk() counts both
\* kinds. An update of a missing index creates the index.
SendChunk(rejected) ==
    /\ ChunkReady
    /\ store' = ApplyChunk(store, b_chunk, 1, rejected)
    /\ indices' = indices \cup {b_index}
    /\ num_success' = num_success + (Len(b_chunk) - Cardinality(rejected))
    /\ num_failed' = num_failed + Cardinality(rejected)
    /\ b_chunk' = << >>
    /\ UNCHANGED <<clock, alias, runs, b_pc, b_index, document_dicts,
                   b_stream, b_pool, analysis, diff,
                   construction, download>>

\* One bulk request after which the helper raises for the rejected actions
\* (its raise_on_error): the exception leaves add_documents_to_index.
SendChunkRaises(rejected) ==
    /\ ChunkReady
    /\ rejected # {}
    /\ store' = ApplyChunk(store, b_chunk, 1, rejected)
    /\ indices' = indices \cup {b_index}
    /\ b_pc' = "raised_bulk"
    /\ b_chunk' = << >>
    /\ b_pool' = {}
    /\ UNCHANGED <<clock, alias, runs, b_index, document_dicts, b_stream,
                   num_success, num_failed, analysis, diff,
                   construction, download>>

\* bulk() returns the counts: `if num_failed: raise`, else return.
Finish ==
    /\ b_pc = "running"
    /\ b_stream = << >> /\ b_pool = {} /\ b_chunk = << >>
    /\ b_pc' = IF num_failed > 0 THEN "raised_failed" ELSE "returned"
    /\ UNCHANGED <<clock, engine, runs, b_index, document_dicts, b_stream,
                   b_pool, b_chunk, num_success, num_failed, analysis, diff,
                   construction, download>>

NextBulk ==
    \/ \E i \in IndexNames, dicts \in Streams : BulkCall(i, dicts)
    \/ Work
    \/ \E res \in b_pool : Take(res)
    \/ \E rejected \in SUBSET (1 .. ChunkSize) :
           /\ rejected \subseteq 1 .. Len(b_chunk)
           /\ SendChunk(rejected)
    \/ \E rejected \in SUBSET (1 .. ChunkSize) :
           /\ rejected \subseteq 1 .. Len(b_chunk)
           /\ SendChunkRaises(rejected)
    \/ Finish

\* One call of add_documents_to_index on an engine that holds one empty,
\* aliased index.
SpecBulk == InitMerge /\ [][NextBulk]_vars

\* ---------------------------------------------------------- analyze_index
\* new_index(index_name + "-induced", ...): the name of the comparison index.
InducedName(index_name, t) == <<index_name[1], index_name[2], "induced", t>>

AnalysisEnded ==
    a_pc \in {"returned", "raised", "raised_delete", "raised_create",
              "raised_missing_index"}

\* A call that goes on to create the comparison index without the check.
AnalyzeCallUnchecked(index_name) ==
    /\ a_pc = "idle" \/ AnalysisEnded
    /\ a_index' = index_name
    /\ induced_index' = InducedName(index_name, clock)
    /\ a_exc' = FALSE
    /\ a_pc' = "create"
    /\ UNCHANGED <<clock, engine, runs, bulk, diff,
                   construction, download>>

\* analyze_index is called: ensure_index_exists raises, or _log_mapping_diff
\* enters new_index, which computes the name from the current second.
AnalyzeCall(index_name) ==
    /\ a_pc = "idle" \/ AnalysisEnded
    /\ a_index' = index_name
    /\ induced_index' = InducedName(index_name, clock)
    /\ a_exc' = FALSE
    /\ a_pc' = IF ensure_index_exists(index_name)
               THEN "create" ELSE "raised_missing_index"
    /\ UNCHANGED <<clock, engine, runs, bulk, diff,
                   construction, download>>

\* new_index with move_data and update_alias false creates the comparison
\* index and returns its name; the try block is entered.
AnalyzeCreate ==
    /\ a_pc = "create"
    /\ induced_index \notin indices
    /\ indices' = indices \cup {induced_index}
    /\ a_pc' = "get_current"
    /\ UNCHANGED <<clock, alias, store, runs, bulk, a_index, induced_index,
                   a_exc, diff,
                   construction, download>>

\* The creation raises (the name is taken, or the engine rejects it): the
\* exception leaves analyze_index before the try block.
AnalyzeCreateFails ==
    /\ a_pc = "create"
    /\ a_pc' = "raised_create"
    /\ UNCHANGED <<clock, engine, runs, bulk, a_index, induced_index, a_exc,
                   diff,
                   construction, download>>

\* current_index.get_mapping(), then induced_index.get_mapping()
AnalyzeGet ==
    /\ a_pc \in {"get_current", "get_induced"}
    /\ a_pc' = IF a_pc = "get_current" THEN "get_induced" ELSE "diff"
    /\ UNCHANGED <<clock, engine, runs, bulk, a_index, induced_index, a_exc,
                   diff,
                   construction, download>>

\* A failing get_mapping whose exception skips the cleanup.
AnalyzeGetFailsNoCleanup ==
    /\ a_pc \in {"get_current", "get_induced"}
    /\ a_pc' = "raised"
    /\ UNCHANGED <<clock, engine, runs, bulk, a_index, induced_index, a_exc,
                   diff,
                   construction, download>>

\* get_mapping raises: the finally block runs with the exception pending.
AnalyzeGetFails ==
    /\ a_pc \in {"get_current", "get_induced"}
    /\ a_pc' = "delete"
    /\ a_exc' = TRUE
    /\ UNCHANGED <<clock, engine, runs, bulk, a_index, induced_index, diff,
                   construction, download>>

\* A mapping is empty (return), the diff is logged, or the diff raises
\* (thrown): in each case the finally block runs next.
AnalyzeDiff(thrown) ==
    /\ a_pc = "diff"
    /\ a_pc' = "delete"
    /\ a_exc' = thrown
    /\ UNCHANGED <<clock, engine, runs, bulk, a_index, induced_index, diff,
                   construction, download>>

\* A finally block that deletes the analysed index.
AnalyzeDeleteCurrent ==
    /\ a_pc = "delete"
    /\ indices' = indices \ {a_index}
    /\ a_pc' = IF a_exc THEN "raised" ELSE "returned"
    /\ UNCHANGED <<clock, alias, store, runs, bulk, a_index, induced_index,
                   a_exc, diff,
                   construction, download>>

\* finally: induced_index.delete(); then the pending exception, if any,
\* leaves analyze_index.
AnalyzeDelete ==
    /\ a_pc = "delete"
    /\ indices' = indices \ {induced_index}
    /\ a_pc' = IF a_exc THEN "raised" ELSE "returned"
    /\ UNCHANGED <<clock, alias, store, runs, bulk, a_index, induced_index,
                   a_exc, diff,
                   construction, download>>

\* induced_index.delete() raises: the index stays.
AnalyzeDeleteFails ==
    /\ a_pc = "delete"
    /\ a_pc' = "raised_delete"
    /\ UNCHANGED <<clock, engine, runs, bulk, a_index, induced_index, a_exc,
                   diff,
                   construction, download>>

NextAnalyze ==
    \/ \E i \in IndexNames : AnalyzeCall(i)
    \/ AnalyzeCreate
    \/ AnalyzeCreateFails
    \/ AnalyzeGet
    \/ AnalyzeGetFails
    \/ \E thrown \in BOOLEAN : AnalyzeDiff(thrown)
    \/ AnalyzeDelete
    \/ AnalyzeDeleteFails
    \/ Tick
    \/ \E i \in IndexNames : Ingest(i, SeedRaw)

\* Calls of analyze_index, one after the other, on an engine that holds one
\* aliased index.
SpecAnalyze == InitMerge /\ [][NextAnalyze]_vars

\* ------------------------------------------------- _recursive_mapping_diff
\* A mapping is a function from field names to field definitions; a field
\* definition has a type and, for an object with sub-fields, the mapping of
\* its "properties" (the empty mapping when the key is missing).
Fields == {"f", "g"}

\* The order in which the dicts are iterated.
FieldOrder == <<"f", "g">>

NoProperties == [x \in {} |-> x]

LeafDefs == [type : {"keyword", "text"}, properties : {NoProperties}]

LeafMappings == UNION {[S -> LeafDefs] : S \in SUBSET Fields}

ObjectDefs == [type : {"object", "nested"},
               properties : LeafMappings \ {NoProperties}]

FieldDefs == LeafDefs \cup ObjectDefs

Mappings == UNION {[S -> FieldDefs] : S \in SUBSET Fields}

\* "properties" in field_mapping
HasProperties(field_mapping) == field_mapping.properties # NoProperties

\* One logged item: the field it is about and what is said about it.
Line(path, kind) == [path |-> path, kind |-> kind]

\* The fields of the induced mapping when nothing was popped from it.
RemainingUnpopped(current, induced) == DOMAIN induced

\* The fields left in the induced mapping after the first loop, which pops
\* every field of the current mapping from it.
Remaining(current, induced) == DOMAIN induced \ DOMAIN current

RECURSIVE OnlyInducedLoop(_, _, _)
\* The second loop, over the fields in rest from position i on.
OnlyInducedLoop(rest, path, i) ==
    IF i > Len(FieldOrder) THEN << >>
    ELSE (IF FieldOrder[i] \in rest
          THEN <<Line(path \o <<FieldOrder[i]>>, "only_induced")>>
          ELSE << >>)
         \o OnlyInducedLoop(rest, path, i + 1)

RECURSIVE CurrentLoop(_, _, _, _)
RECURSIVE recursive_mapping_diff(_, _, _)
\* The first loop, over the fields of the current mapping from position i on.
CurrentLoop(current, induced, path, i) ==
    IF i > Len(FieldOrder) THEN << >>
    ELSE LET field == FieldOrder[i]
             here == path \o <<field>>
         IN  (IF field \notin DOMAIN current
              THEN << >>
              ELSE IF field \notin DOMAIN induced
              THEN <<Line(here, "only_current")>>
              ELSE IF current[field] = induced[field]
              THEN << >>
              ELSE <<Line(here, "header")>>
                   \o (IF HasProperties(current[field])
                          /\ HasProperties(induced[field])
                       THEN recursive_mapping_diff(
                                current[field].properties,
                                induced[field].properties, here)
                       ELSE <<Line(here, "current"),
                              Line(here, "induced")>>))
             \o CurrentLoop(current, induced, path, i + 1)

\* _recursive_mapping_diff: the lines logged for the fields below path.
recursive_mapping_diff(current, induced, path) ==
    CurrentLoop(current, induced, path, 1)
        \o OnlyInducedLoop(Remaining(current, induced), path, 1)

\* The call in _log_mapping_diff: both mappings were fetched; the diff is
\* logged and the top-level dict of the induced mapping is left with the
\* fields that were not popped.
MappingDiff ==
    /\ a_pc = "diff"
    /\ report' = recursive_mapping_diff(current_mapping, induced_mapping,
                                        << >>)
    /\ induced_mapping' = [field \in Remaining(current_mapping,
                                               induced_mapping)
                               |-> induced_mapping[field]]
    /\ a_pc' = "delete"
    /\ UNCHANGED <<clock, engine, runs, bulk, a_index, induced_index, a_exc,
                   current_mapping,
                   construction, download>>

\* analyze_index has created the comparison index and fetched two mappings.
InitDiff ==
    /\ clock = 0
    /\ indices = {GenName(index_base_name, 0),
                  InducedName(GenName(index_base_name, 0), 0)}
    /\ alias = {GenName(index_base_name, 0)}
    /\ store = [i \in IndexNames |-> EmptyIndex]
    /\ pc = [r \in Runs |-> "idle"]
    /\ move_data = [r \in Runs |-> FALSE]
    /\ update_alias = [r \in Runs |-> FALSE]
    /\ new_index_name = [r \in Runs |-> GenName(index_base_name, 0)]
    /\ BulkIdle
    /\ a_pc = "diff"
    /\ a_index = GenName(index_base_name, 0)
    /\ induced_index = InducedName(GenName(index_base_name, 0), 0)
    /\ a_exc = FALSE
    /\ current_mapping \in Mappings
    /\ induced_mapping \in Mappings
    /\ report = << >>
    /\ ConstructionIdle
    /\ DownloadIdle

NextDiff == MappingDiff \/ AnalyzeDelete \/ AnalyzeDeleteFails

SpecDiff == InitDiff /\ [][NextDiff]_vars

\* ---------------------------------------------------------- plain upsert
\* add_documents_to_index for one raw record of a document class that
\* declares no merge group: the bulk action is a doc_as_upsert update.
IngestPlain(index_name, raw) ==
    /\ ensure_index_exists(index_name)
    /\ store' = ApplyOp(store, make_upsert_op(raw, index_name, "BaseDocument"))
    /\ UNCHANGED <<clock, indices, alias, runs, bulk, analysis, diff,
                   construction, download>>

\* An engine in which new_index has created every generation, the last one
\* holding the alias.
InitPlain ==
    /\ clock = MaxClock
    /\ indices = IndexNames
    /\ alias = {GenName(index_base_name, MaxClock)}
    /\ store = [i \in IndexNames |-> EmptyIndex]
    /\ pc = [r \in Runs |-> "idle"]
    /\ move_data = [r \in Runs |-> FALSE]
    /\ update_alias = [r \in Runs |-> FALSE]
    /\ new_index_name = [r \in Runs |-> GenName(index_base_name, 0)]
    /\ BulkIdle
    /\ AnalysisIdle
    /\ DiffIdle
    /\ ConstructionIdle
    /\ DownloadIdle

\* Raw records of such a class: the field that is a merge group elsewhere is
\* an ordinary object field here, None or one object.
PlainRaws ==
    {raw \in RawDicts : raw.meta.kind = "null" \/ raw.meta.items[1].id = 1}

NextPlain == \E i \in IndexNames, raw \in PlainRaws : IngestPlain(i, raw)

SpecPlain == InitPlain /\ [][NextPlain]_vars

\* -------------------------------------------------- BaseDocument.from_dict
FromDictClasses ==
    {"BaseDocument", "RedditLink", "RedditComment", "RedditDocument",
     "TwitterDocument"}

\* copy(doc_dict): a new dict that refers to the same nested object.
shallowcopy(d, h, a) == [dict |-> d, heap |-> h]

\* deepcopy(doc_dict): a new dict whose nested object is a new object, at
\* the free address a, with the same keys.
deepcopy(d, h, a) ==
    IF d.media = NoAddr
    THEN [dict |-> d, heap |-> h]
    ELSE [dict |-> [d EXCEPT !.media = a],
          heap |-> [h EXCEPT ![a] = h[d.media]]]

Prepared(d, h) == [raised |-> FALSE, dict |-> d, heap |-> h]
HookRaised(d, h) == [raised |-> TRUE, dict |-> d, heap |-> h]

\* RedditBaseDocument.prepare_doc_dict: a "media_metadata" dict becomes the
\* list of its values.
RedditBasePrepare(d, h) ==
    Prepared([d EXCEPT !.media_list = d.media # NoAddr], h)

\* RedditLink.prepare_doc_dict; doc_dict["id"] raises if the key is missing.
RedditLinkPrepare(d, h) ==
    LET base == RedditBasePrepare(d, h).dict
    IN  IF d.id = NoId THEN HookRaised(base, h)
        ELSE Prepared([base EXCEPT !.meta_id = <<"t", "1", "_">> \o d.id,
                                   !.crosspost_parent_list = FALSE], h)

\* RedditComment.prepare_doc_dict
RedditCommentPrepare(d, h) ==
    LET base == RedditBasePrepare(d, h).dict
    IN  IF d.id = NoId THEN HookRaised(base, h)
        ELSE Prepared([base EXCEPT !.meta_id = <<"t", "3", "_">> \o d.id], h)

\* A dispatch that looks for a title first and never for both keys.
RedditDocumentPrepareTitleFirst(d, h) ==
    IF d.title THEN RedditLinkPrepare(d, h)
    ELSE IF d.body THEN RedditCommentPrepare(d, h)
    ELSE HookRaised(d, h)

\* RedditDocument.prepare_doc_dict
RedditDocumentPrepare(d, h) ==
    IF d.title /\ d.body THEN HookRaised(d, h)
    ELSE IF d.title THEN RedditLinkPrepare(d, h)
    ELSE IF d.body THEN RedditCommentPrepare(d, h)
    ELSE HookRaised(d, h)

\* TwitterDocument.prepare_doc_dict, on a base hook that returns its
\* argument: "_id" is the source id, and "source_user" is popped from the
\* nested object in place.
TwitterDocumentPrepare(d, h) ==
    IF d.id = NoId THEN HookRaised(d, h)
    ELSE Prepared([d EXCEPT !.meta_id = d.id],
                  IF d.media = NoAddr THEN h
                  ELSE [h EXCEPT ![d.media].source_user = FALSE])

\* cls.prepare_doc_dict(doc_dict)
prepare_doc_dict(c, d, h) ==
    CASE c = "RedditLink" -> RedditLinkPrepare(d, h)
      [] c = "RedditComment" -> RedditCommentPrepare(d, h)
      [] c = "RedditDocument" -> RedditDocumentPrepare(d, h)
      [] c = "TwitterDocument" -> TwitterDocumentPrepare(d, h)
      [] OTHER -> Prepared(d, h)

\* What a dict says about its nested object.
Nested(d, h) ==
    IF d.media = NoAddr THEN "missing"
    ELSE IF h[d.media].source_user THEN "with_source_user"
    ELSE "without_source_user"

\* cls(**doc_dict): the document, by value.
Construct(d, h) ==
    [status |-> "built", id |-> d.meta_id, source_id |-> d.id,
     title |-> d.title, body |-> d.body,
     crosspost_parent_list |-> d.crosspost_parent_list,
     media_list |-> d.media_list, nested |-> Nested(d, h)]

\* from_dict did not return: the hook raised.
RaisedDocument ==
    [status |-> "raised", id |-> NoId, source_id |-> NoId, title |-> FALSE,
     body |-> FALSE, crosspost_parent_list |-> FALSE, media_list |-> FALSE,
     nested |-> "missing"]

\* from_dict: the document and the heap it leaves behind; a is a free
\* address.
from_dict(c, d, h, a) ==
    LET copied == deepcopy(d, h, a)
        hooked == prepare_doc_dict(c, copied.dict, copied.heap)
    IN  [document |-> IF hooked.raised THEN RaisedDocument
                      ELSE Construct(hooked.dict, hooked.heap),
         heap |-> hooked.heap]

\* A caller calls doc_cls.from_dict(doc_dict).
FromDict ==
    /\ Len(documents) < MaxCalls
    /\ LET r == from_dict(doc_cls, doc_dict, heap, Len(documents) + 2)
       IN  /\ documents' = Append(documents, r.document)
           /\ heap' = r.heap
    /\ UNCHANGED <<clock, engine, runs, bulk, analysis, diff, doc_cls,
                   doc_dict, download>>

\* A caller holds a dict, its nested object at address 1.
InitFromDict ==
    /\ clock = 0
    /\ indices = {GenName(index_base_name, 0)}
    /\ alias = {GenName(index_base_name, 0)}
    /\ store = [i \in IndexNames |-> EmptyIndex]
    /\ pc = [r \in Runs |-> "idle"]
    /\ move_data = [r \in Runs |-> FALSE]
    /\ update_alias = [r \in Runs |-> FALSE]
    /\ new_index_name = [r \in Runs |-> GenName(index_base_name, 0)]
    /\ BulkIdle
    /\ AnalysisIdle
    /\ DiffIdle
    /\ DownloadIdle
    /\ doc_cls \in FromDictClasses
    /\ doc_dict \in Dicts
    /\ \E o \in Objects :
           /\ doc_dict.media = NoAddr => ~o.source_user
           /\ heap = [a \in Addrs |->
                         IF a = 1 THEN o ELSE [source_user |-> FALSE]]
    /\ documents = << >>

NextFromDict == FromDict

SpecFromDict == InitFromDict /\ [][NextFromDict]_vars

\* ------------------------------------------------------ two document ids
\* Records of two documents, as two batches observe them.
TwoDocIds == {"A", "B"}

TwoDocRaws ==
    [id : TwoDocIds, text : {"None", "a", "b"},
     meta : {NullMeta} \cup {Single([id |-> k, info |-> "x"]) : k \in 1 .. 2}]

\* An aliased index that can hold both documents and is still empty.
InitTwoDocs ==
    /\ clock = 0
    /\ indices = {GenName(index_base_name, 0)}
    /\ alias = {GenName(index_base_name, 0)}
    /\ store = [i \in IndexNames |-> [d \in TwoDocIds |-> NoDoc]]
    /\ pc = [r \in Runs |-> "idle"]
    /\ move_data = [r \in Runs |-> FALSE]
    /\ update_alias = [r \in Runs |-> FALSE]
    /\ new_index_name = [r \in Runs |-> GenName(index_base_name, 0)]
    /\ BulkIdle
    /\ AnalysisIdle
    /\ DiffIdle
    /\ ConstructionIdle
    /\ DownloadIdle

\* The bulk actions of a stream reach the engine one by one, in the order
\* the pool delivers them.
NextTwoDocs == \E i \in IndexNames, raw \in TwoDocRaws : Ingest(i, raw)

SpecTwoDocs == InitTwoDocs /\ [][NextTwoDocs]_vars

\* ------------------------------------------------ download_pushshift_dumps
\* `for type_ in PushshiftDumpType`
DumpTypes == <<"LINKS", "COMMENTS">>

\* _PUSHSHIFT_EARLIEST_SINCE: the dumps of comments start later than those
\* of links.
EarliestSince(t) == IF t = "LINKS" THEN 1 ELSE 2

\* sha256sum of a file with the given content
Sha256(content) == IF content = "complete" THEN "sum_complete" ELSE "sum_corrupt"

DownloadRaised ==
    {"raised_not_on_server", "raised_value_error", "raised_error"}

\* download_pushshift_dumps is called.
DownloadCall(dt, s, u) ==
    /\ dl_pc = "idle"
    /\ dump_type' = dt
    /\ since' = s
    /\ until' = u
    /\ type_' = DumpTypes[1]
    /\ dl_pc' = "type_loop"
    /\ UNCHANGED <<clock, engine, runs, bulk, analysis, diff, construction,
                   current_date, checksums, target, target_files, tmp_files>>

\* The directory and the checksum list as they are for the files of one
\* month: earlier runs may have left a dump of either pattern and partial
\* ".tmp" files; a sum may be published for a file or not.
EnterMonth(m) ==
    /\ current_date' = m
    /\ target' = 1
    /\ target_files' \in [Patterns -> {"none", "old"}]
    /\ tmp_files' \in [Patterns -> {"none", "partial"}]
    /\ checksums' \in [Patterns -> {"none", "sum_complete"}]
    /\ m > MaxMonth => \A p \in Patterns : target_files'[p] = "none"

\* The loop over the types goes on to the next type, or ends.
NextType ==
    IF type_ = DumpTypes[1]
    THEN /\ type_' = DumpTypes[2]
         /\ dl_pc' = "type_loop"
    ELSE /\ type_' = type_
         /\ dl_pc' = "returned"

\* The head of the loop over the types: a type other than dump_type is
\* skipped; else the checksums are fetched and the loop over the months
\* starts at `since or _PUSHSHIFT_EARLIEST_SINCE[type_]`.
StartType ==
    /\ dl_pc = "type_loop"
    /\ IF dump_type # "None" /\ type_ # dump_type
       THEN /\ NextType
            /\ UNCHANGED <<current_date, checksums, target, target_files,
                           tmp_files>>
       ELSE /\ EnterMonth(IF since # 0 THEN since ELSE EarliestSince(type_))
            /\ dl_pc' = "exists_check"
            /\ type_' = type_
    /\ UNCHANGED <<clock, engine, runs, bulk, analysis, diff, construction,
                   since, until, dump_type>>

\* The request for the checksums raises.
ChecksumsFail ==
    /\ dl_pc = "type_loop"
    /\ dump_type = "None" \/ type_ = dump_type
    /\ dl_pc' = "raised_error"
    /\ UNCHANGED <<clock, engine, runs, bulk, analysis, diff, construction,
                   since, until, dump_type, type_, current_date, checksums,
                   target, target_files, tmp_files>>

\* The first loop of _download_pushshift_dump: if a file of any pattern
\* exists, return; else the second loop starts at the first pattern.
ExistsCheck ==
    /\ dl_pc = "exists_check"
    /\ dl_pc' = IF \E p \in Patterns : target_files[p] # "none"
                THEN "after_dump" ELSE "download"
    /\ UNCHANGED <<clock, engine, runs, bulk, analysis, diff, construction,
                   since, until, dump_type, type_, current_date, checksums,
                   target, target_files, tmp_files>>

\* download_file_with_progressbar to the ".tmp" name returns: the file is
\* written, as the server has it or corrupted on the way.
Download(content) ==
    /\ dl_pc = "download"
    /\ current_date <= MaxMonth
    /\ tmp_files' = [tmp_files EXCEPT ![target] = content]
    /\ dl_pc' = "verify"
    /\ UNCHANGED <<clock, engine, runs, bulk, analysis, diff, construction,
                   since, until, dump_type, type_, current_date, checksums,
                   target, target_files>>

\* It raises FileNotOnServerError: the next pattern is tried; after the last
\* one _download_pushshift_dump raises the same error.
DownloadNotOnServer ==
    /\ dl_pc = "download"
    /\ IF target + 1 \in Patterns
       THEN /\ target' = target + 1
            /\ dl_pc' = "download"
       ELSE /\ target' = target
            /\ dl_pc' = "not_on_server"
    /\ UNCHANGED <<clock, engine, runs, bulk, analysis, diff, construction,
                   since, until, dump_type, type_, current_date, checksums,
                   target_files, tmp_files>>

\* It raises another error, part of the file written.
DownloadFails ==
    /\ dl_pc = "download"
    /\ current_date <= MaxMonth
    /\ tmp_files' = [tmp_files EXCEPT ![target] = "partial"]
    /\ dl_pc' = "raised_error"
    /\ UNCHANGED <<clock, engine, runs, bulk, analysis, diff, construction,
                   since, until, dump_type, type_, current_date, checksums,
                   target, target_files>>

\* A check whose result is ignored: the file is renamed in any case.
VerifyRenamingAnyway ==
    /\ dl_pc = "verify"
    /\ dl_pc' = "rename"
    /\ UNCHANGED <<clock, engine, runs, bulk, analysis, diff, construction,
                   since, until, dump_type, type_, current_date, checksums,
                   target, target_files, tmp_files>>

\* checksums.get(target.name): without a published sum, or with the sum of
\* the ".tmp" file equal to it, the rename is next; else the ".tmp" file is
\* deleted and ValueError raised.
Verify ==
    /\ dl_pc = "verify"
    /\ IF \/ checksums[target] = "none"
          \/ Sha256(tmp_files[target]) = checksums[target]
       THEN /\ dl_pc' = "rename"
            /\ UNCHANGED tmp_files
       ELSE /\ tmp_files' = [tmp_files EXCEPT ![target] = "none"]
            /\ dl_pc' = "raised_value_error"
    /\ UNCHANGED <<clock, engine, runs, bulk, analysis, diff, construction,
                   since, until, dump_type, type_, current_date, checksums,
                   target, target_files>>

\* target_tmp.rename(target)
Rename ==
    /\ dl_pc = "rename"
    /\ target_files' = [target_files EXCEPT ![target] = tmp_files[target]]
    /\ tmp_files' = [tmp_files EXCEPT ![target] = "none"]
    /\ dl_pc' = "after_dump"
    /\ UNCHANGED <<clock, engine, runs, bulk, analysis, diff, construction,
                   since, until, dump_type, type_, current_date, checksums,
                   target>>

\* `except FileNotOnServerError`: raise `if since == current_date or until`,
\* else leave the loop over the months.
NotOnServer ==
    /\ dl_pc = "not_on_server"
    /\ IF since = current_date \/ until # 0
       THEN /\ dl_pc' = "raised_not_on_server"
            /\ type_' = type_
       ELSE NextType
    /\ UNCHANGED <<clock, engine, runs, bulk, analysis, diff, construction,
                   since, until, dump_type, current_date, checksums, target,
                   target_files, tmp_files>>

\* _download_pushshift_dump has returned: `if current_date == until: break`,
\* else the next month.
AfterDump ==
    /\ dl_pc = "after_dump"
    /\ current_date <= MaxMonth
    /\ IF current_date = until
       THEN /\ NextType
            /\ UNCHANGED <<current_date, checksums, target, target_files,
                           tmp_files>>
       ELSE /\ EnterMonth(current_date + 1)
            /\ dl_pc' = "exists_check"
            /\ type_' = type_
    /\ UNCHANGED <<clock, engine, runs, bulk, analysis, diff, construction,
                   since, until, dump_type>>

NextDownload ==
    \/ \E dt \in {"None", "LINKS", "COMMENTS"}, s \in 0 .. MaxMonth,
          u \in 0 .. MaxMonth : DownloadCall(dt, s, u)
    \/ StartType
    \/ ChecksumsFail
    \/ ExistsCheck
    \/ \E content \in {"complete", "corrupt"} : Download(content)
    \/ DownloadNotOnServer
    \/ DownloadFails
    \/ Verify
    \/ Rename
    \/ NotOnServer
    \/ AfterDump

\* One call of download_pushshift_dumps; the server has dumps for the months
\* up to MaxMonth at most.
SpecDownload == InitMerge /\ [][NextDownload]_vars

\* ------------------------------------------------------------ merge claims
\* number of times one record is re-ingested
MaxRepeat == 3

\* The store after ingesting the bulk action op n times.
RECURSIVE IngestN(_, _, _)
IngestN(st, op, n) == IF n = 0 THEN st ELSE IngestN(ApplyOp(st, op), op, n - 1)

\* The raw records that carry a provenance entry.
MetaRaws == {raw \in RawDicts : raw.meta.kind # "null"}

UpsertOp(i, raw) == make_upsert_op(raw, i, document_cls)

EntrySet(doc) == {doc.meta.items[k] : k \in 1 .. Len(doc.meta.items)}

SubIdSet(doc) == {e.id : e \in EntrySet(doc)}

CountSub(doc, s) ==
    Cardinality({k \in 1 .. Len(doc.meta.items) : doc.meta.items[k].id = s})

\* C1: ingesting the same (document id, provenance entry) pair N >= 1 times,
\* whether the document was absent or present, leaves exactly one entry with
\* that sub-identity in the merge group, and the store after N ingestions is
\* the store after one.
IdempotentMerge ==
    \A i \in indices, raw \in MetaRaws, n \in 1 .. MaxRepeat :
        LET op == UpsertOp(i, raw)
            once == ApplyOp(store, op)
            many == IngestN(store, op, n)
        IN  /\ many = once
            /\ CountSub(many[i][raw.id], raw.meta.items[1].id) = 1

\* A document that holds every sub-identity, so that each further ingestion
\* of one of them is a re-ingestion.
IdempotentMergeWitness ==
    \E i \in indices, d \in DocIds :
        /\ store[i][d].meta.kind = "list"
        /\ SubIdSet(store[i][d]) = SubIds
        /\ \A raw \in MetaRaws :
               raw.id = d => ApplyOp(store, UpsertOp(i, raw)) = store

\* The merge group of document d after ingesting raw1 and then raw2.
MergedInOrder(i, raw1, raw2) ==
    ApplyOp(ApplyOp(store, UpsertOp(i, raw1)), UpsertOp(i, raw2))[i][raw1.id]

\* C2 as stated: for any two provenance entries of one document id, both
\* arrival orders give the same merge group as a set of entries.
CommutativeMergeAsStated ==
    \A i \in indices, raw1 \in MetaRaws, raw2 \in MetaRaws :
        raw1.id = raw2.id =>
            EntrySet(MergedInOrder(i, raw1, raw2))
                = EntrySet(MergedInOrder(i, raw2, raw1))

\* C2 amended: both arrival orders give the same set of sub-identities, and
\* the same set of entries when the two entries differ in sub-identity or are
\* equal; of two different entries with one sub-identity the first is kept.
CommutativeMerge ==
    \A i \in indices, raw1 \in MetaRaws, raw2 \in MetaRaws :
        raw1.id = raw2.id =>
            LET p1 == raw1.meta.items[1]
                p2 == raw2.meta.items[1]
                m12 == MergedInOrder(i, raw1, raw2)
                m21 == MergedInOrder(i, raw2, raw1)
            IN  /\ SubIdSet(m12) = SubIdSet(m21)
                /\ (p1.id # p2.id \/ p1 = p2) => EntrySet(m12) = EntrySet(m21)
                /\ (p1.id = p2.id /\ p1.id \notin SubIdSet(store[i][raw1.id]))
                       => (p1 \in EntrySet(m12) /\ p2 \in EntrySet(m21))

\* Two entries have been merged into one document, the later sub-identity
\* first.
CommutativeMergeWitness ==
    \E i \in indices, d \in DocIds :
        /\ store[i][d].meta.kind = "list"
        /\ Len(store[i][d].meta.items) = 2
        /\ store[i][d].meta.items[1].id > store[i][d].meta.items[2].id

\* C3: a document stored with a single provenance entry and merged with an
\* entry of another sub-identity holds the two-element list of both, the
\* original first; merged with an entry of the same sub-identity it keeps
\* the single value.
SingleToListPromotion ==
    \A i \in indices, raw \in MetaRaws :
        LET old == store[i][raw.id]
            p == raw.meta.items[1]
            new == ApplyOp(store, UpsertOp(i, raw))[i][raw.id]
        IN  (old.exists /\ old.meta.kind = "single") =>
                IF p.id # old.meta.items[1].id
                THEN new.meta = List(<<old.meta.items[1], p>>)
                ELSE new.meta = old.meta

\* A document has been promoted to a two-element list and a record with the
\* first entry's sub-identity but other descriptive fields leaves it as it is.
SingleToListPromotionWitness ==
    \E i \in indices, d \in DocIds :
        /\ store[i][d].meta.kind = "list"
        /\ Len(store[i][d].meta.items) = 2
        /\ store[i][d].meta.items[1].info # store[i][d].meta.items[2].info

\* C4: no stored merge group holds two entries with the same sub-identity.
MergeGroupUnique ==
    \A i \in indices, d \in DocIds :
        \A k, l \in 1 .. Len(store[i][d].meta.items) :
            k # l => store[i][d].meta.items[k].id # store[i][d].meta.items[l].id

\* Every document holds a list of all sub-identities.
MergeGroupUniqueWitness ==
    \E i \in indices : \A d \in DocIds :
        /\ store[i][d].meta.kind = "list"
        /\ Len(store[i][d].meta.items) = MaxSub

\* C5: a sub-identity stored in a document's merge group is in that merge
\* group in every later state, whatever is ingested.
ProvenanceNeverLost ==
    [][\A i \in indices, d \in DocIds :
           SubIdSet(store[i][d]) \subseteq SubIdSet(store'[i][d])]_vars

\* A document holds provenance and its other field has been written by a
\* later record (of either kind).
ProvenanceNeverLostWitness ==
    \E i \in indices, d \in DocIds :
        /\ store[i][d].meta.kind = "list"
        /\ Len(store[i][d].meta.items) = 2
        /\ store[i][d].text = "b"

\* -------------------------------------------------------- new_index claims
\* C6: when calls of new_index do not overlap, each call with move_data
\* false and update_alias true that returns leaves the alias on the index it
\* created and on no other index.
AliasCorrect ==
    [][\A r \in Runs :
           (pc[r] # "returned" /\ pc'[r] = "returned"
                /\ update_alias[r] /\ ~move_data[r])
               => alias' = {new_index_name[r]}]_vars

\* Two such calls have returned one after the other, and the alias has moved
\* from the generation of the first to that of the second.
AliasCorrectWitness ==
    \E r \in Runs, q \in Runs :
        /\ pc[r] = "returned" /\ update_alias[r] /\ ~move_data[r]
        /\ pc[q] = "returned" /\ update_alias[q] /\ ~move_data[q]
        /\ new_index_name[q][2] < new_index_name[r][2]
        /\ alias = {new_index_name[r]}

\* C7: once overlapping calls of new_index with update_alias true that
\* created differently named generations have all returned, at most one
\* generation of the base name holds the alias.
AliasUniqueAfterConcurrentRuns ==
    ( /\ \A r \in Runs : pc[r] = "returned" /\ update_alias[r]
      /\ \A r \in Runs, q \in Runs :
             r # q => new_index_name[r] # new_index_name[q] )
        => Cardinality(alias \cap all_indices) <= 1

\* C8: a call of new_index never leaves the alias without a holder once a
\* generation holds it: the alias moves in one step.
AtomicCutover == [][alias # {} => alias' # {}]_vars

\* C9: when the copy of a call with move_data true fails, the exception
\* leaves new_index, the alias is as it was when the call began, and the
\* created generation exists without holding the alias.
CopyFailureLeavesAlias ==
    [][\A r \in Runs :
           move_data[r] =>
               /\ pc[r] \in {"create", "reindex"} => alias' = alias
               /\ (pc[r] = "reindex" /\ pc'[r] \notin {"reindex", "refresh"})
                      => pc'[r] = "raised_reindex"
               /\ pc'[r] = "raised_reindex"
                      => /\ new_index_name'[r] \in indices'
                         /\ new_index_name'[r] \notin alias']_vars

\* A copy has failed while a generation held the alias; the failed call was
\* asked to move the alias, and part of the data reached the new generation.
CopyFailureLeavesAliasWitness ==
    \E r \in Runs :
        /\ pc[r] = "raised_reindex"
        /\ update_alias[r]
        /\ alias # {}
        /\ store[new_index_name[r]]["A"].exists

\* C10: when the engine rejects the creation, as it does when the name is
\* taken, new_index raises at once and the engine is as it was: no index is
\* created or changed, nothing is copied and the alias is not written.
CreationFailureSurfaced ==
    [][\A r \in Runs :
           (pc[r] = "create" /\ pc'[r] # "create") =>
               /\ new_index_name[r] \in indices => pc'[r] = "raised_create"
               /\ pc'[r] = "raised_create" => engine' = engine]_vars

\* Two calls computed their name in the same second: the first created the
\* generation, holds the alias and has data; the second was rejected.
CreationFailureSurfacedWitness ==
    \E r \in Runs, q \in Runs :
        /\ r # q
        /\ pc[r] = "raised_create"
        /\ pc[q] = "returned"
        /\ new_index_name[r] = new_index_name[q]
        /\ new_index_name[q] \in alias
        /\ store[new_index_name[q]]["A"].exists

\* ------------------------------------------------------ lifecycle ordering
\* The position of an engine call in the text of new_index.
Rank(p) ==
    CASE p = "create" -> 0
      [] p = "reindex" -> 1
      [] p = "refresh" -> 2
      [] p = "exists_alias" -> 3
      [] p = "delete_alias" -> 4
      [] p = "put_alias" -> 5
      [] OTHER -> 6

AliasCalls == {"exists_alias", "delete_alias", "put_alias"}

\* C11: a run makes its engine calls in the order create, reindex and
\* refresh (only with move_data), alias update (only with update_alias); it
\* reaches the alias update only from a completed create or, with move_data,
\* a completed refresh; within a call the position never moves back; the
\* alias is attached only to an existing generation, by the put_alias of
\* the run that named it.
LifecycleOrder ==
    [][\A r \in Runs :
           /\ (Active(r) /\ Active(r)') => Rank(pc'[r]) >= Rank(pc[r])
           /\ pc'[r] \in {"reindex", "refresh"} => move_data'[r]
           /\ pc'[r] = "refresh" => pc[r] \in {"reindex", "refresh"}
           /\ pc'[r] \in AliasCalls => update_alias'[r]
           /\ (pc'[r] \in AliasCalls /\ pc[r] \notin AliasCalls)
                  => pc[r] = (IF move_data[r] THEN "refresh" ELSE "create")
           /\ (pc'[r] = "returned" /\ pc[r] # "returned")
                  => pc[r] = (IF update_alias[r] THEN "put_alias"
                              ELSE IF move_data[r] THEN "refresh"
                              ELSE "create")
           /\ (new_index_name[r] \in alias' \ alias)
                  => /\ new_index_name[r] \in indices
                     /\ \E q \in Runs :
                            /\ new_index_name[q] = new_index_name[r]
                            /\ pc[q] = "put_alias" /\ pc'[q] = "returned"]_vars

\* A run with both flags has returned: its generation holds copied data and
\* the alias.
LifecycleOrderWitness ==
    \E r \in Runs :
        /\ pc[r] = "returned" /\ move_data[r] /\ update_alias[r]
        /\ alias = {new_index_name[r]}
        /\ store[new_index_name[r]]["A"].exists
        /\ Cardinality(indices) > 1

\* ------------------------------------------- add_documents_to_index claims
\* The k-th record of the stream is in the index.
Stored(k) == k \in SubIdSet(store[b_index]["A"])

InvalidRecords == {k \in 1 .. Len(document_dicts) : ~document_dicts[k].valid}

\* C12: when ingest on an existing index ends, the counts it reports add up
\* to the number of raw records, and the failed count covers the records
\* that failed validation.
BulkAccounting ==
    (BulkEnded /\ b_pc # "raised_missing_index") =>
        /\ num_success + num_failed = Len(document_dicts)
        /\ num_failed >= Cardinality(InvalidRecords)

\* C13: a record whose construction or validation raises does not keep the
\* other valid records of the stream from being stored: when nothing was
\* rejected by the engine, every valid record is in the index at the end.
FailureIsolation ==
    (BulkEnded /\ b_pc \notin {"raised_missing_index", "raised_bulk"}
         /\ num_failed = 0) =>
        \A k \in 1 .. Len(document_dicts) : document_dicts[k].valid => Stored(k)

\* C14: ingest returns normally only if every record of the stream is in
\* the index; if one is not, the call ends by raising.
FailuresNotSwallowed ==
    /\ b_pc = "returned" => \A k \in 1 .. Len(document_dicts) : Stored(k)
    /\ (BulkEnded /\ \E k \in 1 .. Len(document_dicts) : ~Stored(k))
           => b_pc \in BulkRaised

\* The call was ended by the exception of a worker after a bulk request had
\* stored part of the stream.
FailuresNotSwallowedWitness ==
    /\ b_pc = "raised_worker"
    /\ num_success > 0
    /\ \E k \in 1 .. Len(document_dicts) : Stored(k)
    /\ \E k \in 1 .. Len(document_dicts) : document_dicts[k].valid /\ ~Stored(k)

\* C15: called on an index that does not exist, ingest raises at once: no
\* record is read, built or submitted, the engine is as it was (the index
\* is not created), and nothing happens afterwards.
IngestRequiresIndex ==
    [][/\ (b_pc = "idle" /\ b_pc' # "idle" /\ b_index' \notin indices)
              => /\ b_pc' = "raised_missing_index"
                 /\ engine' = engine
                 /\ b_stream' = document_dicts'
                 /\ b_pool' = {} /\ b_chunk' = << >>
       /\ b_pc = "raised_missing_index" => vars' = vars
       /\ b_index' \notin indices => indices' = indices]_vars

\* Ingest of a stream of MaxSub records into a missing index has raised.
IngestRequiresIndexWitness ==
    /\ b_pc = "raised_missing_index"
    /\ b_index \notin indices
    /\ Len(document_dicts) = MaxSub
    /\ b_stream = document_dicts

\* ----------------------------------------------------- analyze_index claims
\* C16: called on an index that does not exist, analyze raises before the
\* comparison index is created: the set of indices stays as it was, during
\* the call and after it.
AnalyzeRequiresIndex ==
    [][/\ ((a_pc = "idle" \/ AnalysisEnded) /\ a_pc' \notin {"idle", a_pc}
               /\ a_index' \notin indices)
              => (a_pc' = "raised_missing_index" /\ indices' = indices)
       /\ (a_pc = "raised_missing_index" /\ a_pc' # "raised_missing_index")
              => a_pc' \in {"create", "raised_missing_index"}
       /\ a_pc' = "raised_missing_index" => a_index' \notin indices']_vars

\* Analysis of a missing index has raised after an earlier analysis of the
\* existing one had returned.
AnalyzeRequiresIndexWitness ==
    /\ a_pc = "raised_missing_index"
    /\ a_index \notin indices
    /\ clock > 0
    /\ \E i \in indices : i \notin IndexNames

\* C17 as stated: whenever an execution of analyze that created the
\* comparison index has returned or raised, that index no longer exists.
CleanupGuaranteed ==
    a_pc \in {"returned", "raised", "raised_delete"}
        => induced_index \notin indices

\* C17 amended: every execution that created the comparison index runs its
\* delete before it returns or raises, and the index no longer exists at
\* the end unless that delete itself raised.
CleanupAttempted ==
    [][/\ a_pc' \in {"returned", "raised"} => induced_index' \notin indices'
       /\ (a_pc \in {"get_current", "get_induced", "diff"} /\ a_pc' # a_pc)
              => a_pc' \in {"get_induced", "diff", "delete"}
       /\ (a_pc' \in {"returned", "raised", "raised_delete"} /\ a_pc' # a_pc)
              => a_pc = "delete"]_vars

\* An execution whose fetch of a mapping failed has raised, the comparison
\* index is gone and only the analysed index is left.
CleanupAttemptedWitness ==
    /\ a_pc = "raised"
    /\ a_exc
    /\ induced_index \notin indices
    /\ indices = {a_index}

\* C18: no step of analyze changes the documents of any index, the holders
\* of the alias, or the existence of any index but its comparison index,
\* which is none of the generations.
AnalyzeReadOnly ==
    [][a_pc' # a_pc =>
           /\ alias' = alias
           /\ store' = store
           /\ indices' \ {induced_index'} = indices \ {induced_index'}
           /\ induced_index' \notin IndexNames]_vars

\* An analysis of the aliased index, which holds a document, has returned.
AnalyzeReadOnlyWitness ==
    /\ a_pc = "returned"
    /\ a_index \in alias
    /\ store[a_index]["A"].exists
    /\ induced_index \notin indices

\* ------------------------------------------------------ mapping diff claims
\* The fields of a mapping, at both depths, by their path.
Paths == {<<a>> : a \in Fields} \cup {<<a, b>> : a \in Fields, b \in Fields}

\* Is the field at path p present in mapping m?
PresentAt(m, p) ==
    /\ p[1] \in DOMAIN m
    /\ Len(p) = 2 => p[2] \in DOMAIN m[p[1]].properties

DefAt(m, p) == IF Len(p) = 1 THEN m[p[1]] ELSE m[p[1]].properties[p[2]]

\* How often the report says kind about the field at path p.
Reported(rep, p, kind) ==
    Cardinality({k \in 1 .. Len(rep) : rep[k] = Line(p, kind)})

\* How often the report names the field at path p at all.
Named(rep, p) == Cardinality({k \in 1 .. Len(rep) : rep[k].path = p})

\* A top-level field, or a sub-field of a field that both mappings hold as
\* an object with sub-fields.
ParentOnBothSides(current, induced, p) ==
    Len(p) = 2 =>
        /\ p[1] \in DOMAIN current /\ HasProperties(current[p[1]])
        /\ p[1] \in DOMAIN induced /\ HasProperties(induced[p[1]])

\* C19 as stated: at both depths a field is reported once as only existing
\* in one mapping exactly when it is present there and absent from the
\* other, and a field with equal definitions is not reported.
MissingFieldsReportedAsStated ==
    [][(a_pc = "diff" /\ a_pc' = "delete") =>
          \A p \in Paths :
              /\ Reported(report', p, "only_current")
                     = IF PresentAt(current_mapping, p)
                          /\ ~PresentAt(induced_mapping, p)
                       THEN 1 ELSE 0
              /\ Reported(report', p, "only_induced")
                     = IF PresentAt(induced_mapping, p)
                          /\ ~PresentAt(current_mapping, p)
                       THEN 1 ELSE 0
              /\ (/\ PresentAt(current_mapping, p)
                  /\ PresentAt(induced_mapping, p)
                  /\ DefAt(current_mapping, p) = DefAt(induced_mapping, p))
                     => Named(report', p) = 0]_vars

\* C19 amended: the same for every top-level field and every sub-field of a
\* field that is an object with sub-fields in both mappings; a sub-field
\* under any other field gets no line of its own.
MissingFieldsReported ==
    [][(a_pc = "diff" /\ a_pc' = "delete") =>
          \A p \in Paths :
              /\ Reported(report', p, "only_current")
                     = IF /\ PresentAt(current_mapping, p)
                          /\ ~PresentAt(induced_mapping, p)
                          /\ ParentOnBothSides(current_mapping,
                                               induced_mapping, p)
                       THEN 1 ELSE 0
              /\ Reported(report', p, "only_induced")
                     = IF /\ PresentAt(induced_mapping, p)
                          /\ ~PresentAt(current_mapping, p)
                          /\ ParentOnBothSides(current_mapping,
                                               induced_mapping, p)
                       THEN 1 ELSE 0
              /\ (/\ PresentAt(current_mapping, p)
                  /\ PresentAt(induced_mapping, p)
                  /\ DefAt(current_mapping, p) = DefAt(induced_mapping, p))
                     => Named(report', p) = 0]_vars

\* The diff has reported a top-level field of the current mapping, a
\* sub-field of the induced mapping, and has passed over a field both
\* mappings define alike.
MissingFieldsReportedWitness ==
    /\ a_pc = "delete"
    /\ Reported(report, <<"f">>, "only_current") = 1
    /\ Reported(report, <<"g", "f">>, "only_induced") = 1
    /\ PresentAt(current_mapping, <<"g", "g">>)
    /\ Named(report, <<"g", "g">>) = 0
    /\ Len(report) = 3

\* ------------------------------------------------------ plain upsert claim
\* C20: for a document class without a merge group, after a record is
\* ingested the stored document of its id is the canonical document of that
\* record, whether the id was stored before or not.
PlainUpsertOverwrites ==
    \A i \in indices, raw \in PlainRaws :
        ApplyOp(store, make_upsert_op(raw, i, "BaseDocument"))[i][raw.id]
            = Inserted(to_dict(raw))

\* ------------------------------------------------- new_index frame claims
\* C21: no step of a call of new_index with update_alias false changes the
\* set of indices that hold the alias, whatever move_data is and however
\* the call ends.
NoAliasWriteWithoutFlag ==
    [][\A r \in Runs :
           (pc'[r] # pc[r] /\ ~update_alias'[r]) => alias' = alias]_vars

\* A call with move_data true and update_alias false has returned: its
\* generation exists without the alias, which another generation holds.
NoAliasWriteWithoutFlagWitness ==
    \E r \in Runs :
        /\ pc[r] = "returned"
        /\ move_data[r] /\ ~update_alias[r]
        /\ new_index_name[r] \in indices \ alias
        /\ store[new_index_name[r]]["A"].exists
        /\ alias # {}

\* C22: no step of a call of new_index removes an index or changes the
\* documents of an index other than the one the call created itself (a call
\* gets past its creation only if no index had its name), and the only
\* index a call gives the alias to is its own.
OldGenerationsUntouched ==
    [][\A r \in Runs : pc'[r] # pc[r] =>
           /\ indices \subseteq indices'
           /\ \A i \in indices :
                  /\ store'[i] # store[i]
                         => (i = new_index_name[r] /\ pc[r] = "reindex")
                  /\ (i \in alias' /\ i \notin alias)
                         => (i = new_index_name[r] /\ pc[r] = "put_alias")
           /\ (pc[r] = "create" /\ pc'[r] # "raised_create")
                  => new_index_name[r] \notin indices]_vars

\* A call with both flags has returned: an older generation still exists
\* with its document and has lost the alias to the new generation.
OldGenerationsUntouchedWitness ==
    \E r \in Runs, i \in indices :
        /\ pc[r] = "returned"
        /\ move_data[r] /\ update_alias[r]
        /\ i # new_index_name[r]
        /\ store[i]["A"].exists
        /\ alias = {new_index_name[r]}

\* ---------------------------------------------------------- from_dict claims
\* C23: a call of from_dict leaves the caller's dict and its nested object
\* as they were, and the calls made on one dict return equal documents with
\* equal ids.
FromDictPure ==
    [][documents' # documents =>
           /\ doc_dict' = doc_dict
           /\ doc_dict.media # NoAddr
                  => heap'[doc_dict.media] = heap[doc_dict.media]
           /\ \A j, k \in 1 .. Len(documents') :
                  documents'[j] = documents'[k]]_vars

\* Two calls on a tweet whose nested object has the key the hook pops: the
\* documents lack the key, the caller's object still has it.
FromDictPureWitness ==
    /\ doc_cls = "TwitterDocument"
    /\ Len(documents) = 2
    /\ doc_dict.media # NoAddr
    /\ heap[doc_dict.media].source_user
    /\ documents[1].status = "built"
    /\ documents[2].nested = "without_source_user"

\* C24: on a record with both a title and a body, or with neither, the hook
\* of RedditDocument raises; on any other record it runs the preparation of
\* a link (title) or of a comment (body), never both, which raises without
\* a source id and else stores "t1_" or "t3_" before it, so that a link and a
\* comment with one source id get different stored ids.
RedditFailsClosed ==
    /\ doc_cls = "RedditDocument" =>
           \A k \in 1 .. Len(documents) :
               IF doc_dict.title = doc_dict.body \/ doc_dict.id = NoId
               THEN documents[k].status = "raised"
               ELSE /\ documents[k].status = "built"
                    /\ documents[k].id =
                           (IF doc_dict.title THEN <<"t", "1", "_">>
                            ELSE <<"t", "3", "_">>) \o doc_dict.id
                    /\ documents[k].crosspost_parent_list =
                           (doc_dict.crosspost_parent_list /\ doc_dict.body)
    /\ \A link, comment \in Dicts :
           (/\ link.title /\ ~link.body
            /\ comment.body /\ ~comment.title
            /\ link.id = comment.id /\ link.id # NoId)
               => from_dict("RedditDocument", link, heap, 2).document.id
                      # from_dict("RedditDocument", comment, heap, 2).document.id

\* from_dict of RedditDocument has raised on a record with a title and a body.
RedditFailsClosedWitness ==
    /\ doc_cls = "RedditDocument"
    /\ doc_dict.title /\ doc_dict.body
    /\ doc_dict.id # NoId
    /\ Len(documents) = 1
    /\ documents[1].status = "raised"

\* ------------------------------------------------- mapping mismatch claim
\* Does the report have a line about a sub-field of the field at path p?
SubFieldReported(rep, p) ==
    \E k \in 1 .. Len(rep) :
        /\ Len(rep[k].path) > Len(p)
        /\ SubSeq(rep[k].path, 1, Len(p)) = p

\* C25: for every field that both mappings hold with different definitions,
\* the report shows both definitions of the field or a difference among its
\* sub-fields.
MismatchShown ==
    [][(a_pc = "diff" /\ a_pc' = "delete") =>
          \A p \in Paths :
              (/\ PresentAt(current_mapping, p)
               /\ PresentAt(induced_mapping, p)
               /\ DefAt(current_mapping, p) # DefAt(induced_mapping, p))
                  => \/ /\ Reported(report', p, "current") = 1
                        /\ Reported(report', p, "induced") = 1
                     \/ SubFieldReported(report', p)]_vars

MergeTouchesOnlyMergeGroup ==
    \A i \in indices, raw \in MetaRaws :
        store[i][raw.id].exists =>
            LET op == UpsertOp(i, raw)
                new == ApplyOp(store, op)[i][raw.id]
            IN  /\ op.kind = "script"
                /\ new.exists
                /\ new.text = store[i][raw.id].text

\* A document first ingested without a value for the non-merge field has
\* been merged with the entries of three batches and still has none.
MergeTouchesOnlyMergeGroupWitness ==
    \E i \in indices :
        /\ store[i]["A"].exists
        /\ store[i]["A"].text = Absent
        /\ store[i]["A"].meta.kind = "list"
        /\ Len(store[i]["A"].meta.items) = 3

\* ----------------------------------------------------------- download claims
\* C29: a dump that the call has put under its final name was downloaded to
\* the end and has the published sum, if one is published; after a mismatch
\* the ".tmp" file is gone, ValueError is raised and no file has a final
\* name; and when a file of any pattern exists for the month, no request is
\* made and no file changes.
DumpAllOrNothing ==
    [][/\ \A p \in Patterns :
              target_files'[p] \notin {"none", "old"} =>
                  /\ target_files'[p] \in {"complete", "corrupt"}
                  /\ checksums'[p] = "none"
                         \/ Sha256(target_files'[p]) = checksums'[p]
       /\ dl_pc' = "raised_value_error" =>
              /\ tmp_files'[target'] = "none"
              /\ \A p \in Patterns : target_files'[p] = "none"
       /\ (dl_pc = "exists_check"
               /\ \E p \in Patterns : target_files[p] # "none") =>
              /\ dl_pc' \notin {"download", "verify", "rename"}
              /\ target_files' = target_files /\ tmp_files' = tmp_files
       /\ dl_pc' \in {"download", "verify", "rename"} =>
              \A p \in Patterns : target_files'[p] = "none"]_vars

\* A download that arrived corrupted was found out by its sum: the call has
\* raised and left neither file.
DumpAllOrNothingWitness ==
    /\ dl_pc = "raised_value_error"
    /\ checksums[target] = "sum_complete"
    /\ tmp_files[target] = "none"
    /\ target = 2
    /\ current_date > since /\ since # 0

\* C30: every request for a dump is for a month not before since and not
\* after until, where these are given.
DownloadRangeBounded ==
    dl_pc \in {"download", "verify", "rename"} =>
        /\ since # 0 => since <= current_date
        /\ until # 0 => current_date <= until

====
